---- MODULE Spec2Model ----
(***************************************************************************)
(* A model of the const_enum! macro (src/src/lib.rs): one invocation of    *)
(* the macro is expanded into an enum, associated constants, an            *)
(* Into<Struct> impl and an as_enum method; the generated items are then   *)
(* used at run time on containers built from raw data, from variants and   *)
(* from the named constants.                                               *)
(***************************************************************************)
EXTENDS Integers, Sequences, FiniteSets, TLC

\* largest number of `Variance : Value` entries in one invocation
MaxVariants == 2

\* width in bits of the primitive field type of the documented example (u8)
FieldBits == 8

\* ------------------------------------------------------------ value spaces
\* identifiers an author uses as $Variance
Names == {"V0", "V1", "V3"}
\* the values of $FieldType
FieldType == 0 .. (2^FieldBits - 1)
\* integer literals an author writes for $Value: values of the documented
\* example and one literal that overflows the field type
Literals == {0, 1, 13, 2^FieldBits}
\* a validation interval written in the invocation: <<>> when none is written
Intervals == {<<>>, <<0, 22>>, <<1, 13>>}
\* one `Variance : Value` entry; ranged is TRUE when the author wrote
\* `Value ..= something` instead of a single literal
VariantDecl == [name : Names, value : Literals, ranged : BOOLEAN]

SeqUpTo(S, n) == UNION {[1 .. k -> S] : k \in 0 .. n}

\* the token trees an author may hand to const_enum!
Invocations == [variants : SeqUpTo(VariantDecl, MaxVariants), interval : Intervals]

VARIABLES
    inv,        \* the macro invocation
    pc,         \* "invoked" | "rejected" | "ready"
    gen,        \* <<>> or <<the generated items>>
    c,          \* <<>> or <<the container under consideration>>
    src,        \* how c was made: [kind, v]
    ret,        \* <<>> or <<the result of as_enum on c>>
    back,       \* <<>> or <<the container rebuilt from ret's variant>>
    consulted   \* number of match arms compared by the last as_enum

vars == <<inv, pc, gen, c, src, ret, back, consulted>>

\* Result<$EnumType, $FieldType>
Ok(v) == [tag |-> "Ok", variant |-> v, raw |-> -1]
Err(x) == [tag |-> "Err", variant |-> "-", raw |-> x]

\* ------------------------------------------------------------ expansion
\* the entry arm's matcher: one or more entries, each `ident : literal`,
\* and nothing but `Struct::field : type` between the brackets
Matches_pat(i) == Len(i.variants) >= 1 /\ i.interval = <<>>
Matches(i) ==
    /\ Len(i.variants) >= 1
    /\ i.interval = <<>>
    /\ \A k \in 1 .. Len(i.variants) : ~i.variants[k].ranged

\* #[repr($FieldType)] enum $EnumType { $Variance = $Value, ... }
def_enum(vs) == [k \in 1 .. Len(vs) |-> [variant |-> vs[k].name, discr |-> vs[k].value]]

\* const $Variance: $Struct = $Struct { $Field: $Value };
def_const_index(vs) == [k \in 1 .. Len(vs) |-> [name |-> vs[k].name, data |-> k - 1]]
def_const(vs) == [k \in 1 .. Len(vs) |-> [name |-> vs[k].name, data |-> vs[k].value]]

\* the match arms `$Value => Ok($EnumType::$Variance),` in declaration order
as_enum_arms(vs) == [k \in 1 .. Len(vs) |-> [pat |-> vs[k].value, variant |-> vs[k].name]]

\* the items the entry arm emits for one enum block
EntryItems == {"def_enum", "def_const", "into_struct", "as_enum"}

const_enum(i) ==
    [enum |-> def_enum(i.variants),
     consts |-> def_const(i.variants),
     arms |-> as_enum_arms(i.variants),
     interval |-> i.interval,
     items |-> EntryItems]

\* the generated enum is a legal item: variant names are distinct,
\* discriminants are distinct and fit the repr type
EnumWellFormed_dup(e) ==
    /\ \A j, k \in 1 .. Len(e) : j # k => e[j].variant # e[k].variant
    /\ \A k \in 1 .. Len(e) : e[k].discr \in FieldType
EnumWellFormed(e) ==
    /\ \A j, k \in 1 .. Len(e) : j # k => e[j].variant # e[k].variant
    /\ \A j, k \in 1 .. Len(e) : j # k => e[j].discr # e[k].discr
    /\ \A k \in 1 .. Len(e) : e[k].discr \in FieldType

\* the generated associated constants are legal: distinct names, and each
\* literal fits the field's type
ConstsWellFormed(cs) ==
    /\ \A j, k \in 1 .. Len(cs) : j # k => cs[j].name # cs[k].name
    /\ \A k \in 1 .. Len(cs) : cs[k].data \in FieldType

Compiles(g) == EnumWellFormed(g.enum) /\ ConstsWellFormed(g.consts)

\* ------------------------------------------------------------ run time
Variants(g) == {g.enum[k].variant : k \in 1 .. Len(g.enum)}

\* `self as $FieldType`: the discriminant of the variant, at the field's width
as_cast_index(g, v) ==
    (CHOOSE k \in 1 .. Len(g.enum) : g.enum[k].variant = v) - 1
as_cast(g, v) ==
    LET k == CHOOSE k \in 1 .. Len(g.enum) : g.enum[k].variant = v
    IN g.enum[k].discr % (2^FieldBits)

\* impl Into<$Struct> for $EnumType
into_struct_default(g, v) == [data |-> 0]
into_struct(g, v) == [data |-> as_cast(g, v)]

\* the associated constant $Struct::$Variance
ConstNamed(g, n) ==
    LET k == CHOOSE k \in 1 .. Len(g.consts) : g.consts[k].name = n
    IN [data |-> g.consts[k].data]

\* index of the first arm whose pattern equals x, 0 when only `_` matches
RECURSIVE MatchArm(_, _, _)
MatchArm(arms, x, k) ==
    IF k > Len(arms) THEN 0
    ELSE IF arms[k].pat = x THEN k
    ELSE MatchArm(arms, x, k + 1)

\* number of literal arms compared with x before the match is decided
ArmsConsulted(arms, x) ==
    LET k == MatchArm(arms, x, 1) IN IF k = 0 THEN Len(arms) ELSE k

\* fn as_enum(&self) -> Result<$EnumType, $FieldType>
as_enum_unwrap(g, self) ==
    LET k == MatchArm(g.arms, self.data, 1)
    IN IF k # 0 THEN Ok(g.arms[k].variant)
       ELSE [tag |-> "Panic", variant |-> "-", raw |-> self.data]
as_enum_err_default(g, self) ==
    LET k == MatchArm(g.arms, self.data, 1)
    IN IF k # 0 THEN Ok(g.arms[k].variant) ELSE Err(0)
as_enum_first(g, self) ==
    LET k == MatchArm(g.arms, self.data, 1)
    IN IF k # 0 THEN Ok(g.arms[1].variant) ELSE Err(self.data)
as_enum(g, self) ==
    LET k == MatchArm(g.arms, self.data, 1)
    IN IF k # 0 THEN Ok(g.arms[k].variant) ELSE Err(self.data)

\* ------------------------------------------------------------ actions
Init ==
    /\ inv \in Invocations
    /\ pc = "invoked"
    /\ gen = <<>>
    /\ c = <<>>
    /\ src = [kind |-> "none", v |-> "-"]
    /\ ret = <<>>
    /\ back = <<>>
    /\ consulted = 0

\* the compiler expands the invocation and checks the generated items
Expand ==
    /\ pc = "invoked"
    /\ IF Matches(inv) /\ Compiles(const_enum(inv))
       THEN pc' = "ready" /\ gen' = <<const_enum(inv)>>
       ELSE pc' = "rejected" /\ gen' = <<>>
    /\ UNCHANGED <<inv, c, src, ret, back, consulted>>

\* a container arrives from outside with an arbitrary raw value
FromRaw ==
    /\ pc = "ready"
    /\ c = <<>>
    /\ \E x \in FieldType :
        /\ c' = <<[data |-> x]>>
        /\ src' = [kind |-> "raw", v |-> "-"]
    /\ ret' = <<>>
    /\ back' = <<>>
    /\ consulted' = 0
    /\ UNCHANGED <<inv, pc, gen>>

\* let s: $Struct = variant.into();
Into ==
    /\ pc = "ready"
    /\ c = <<>>
    /\ \E v \in Variants(gen[1]) :
        /\ c' = <<into_struct(gen[1], v)>>
        /\ src' = [kind |-> "into", v |-> v]
    /\ ret' = <<>>
    /\ back' = <<>>
    /\ consulted' = 0
    /\ UNCHANGED <<inv, pc, gen>>

\* let s = $Struct::$Variance;
Const ==
    /\ pc = "ready"
    /\ c = <<>>
    /\ \E n \in {gen[1].consts[k].name : k \in 1 .. Len(gen[1].consts)} :
        /\ c' = <<ConstNamed(gen[1], n)>>
        /\ src' = [kind |-> "const", v |-> n]
    /\ ret' = <<>>
    /\ back' = <<>>
    /\ consulted' = 0
    /\ UNCHANGED <<inv, pc, gen>>

\* c.as_enum()
AsEnum ==
    /\ pc = "ready"
    /\ c # <<>>
    /\ ret = <<>>
    /\ ret' = <<as_enum(gen[1], c[1])>>
    /\ consulted' = ArmsConsulted(gen[1].arms, c[1].data)
    /\ UNCHANGED <<inv, pc, gen, c, src, back>>

\* if let Ok(v) = c.as_enum() { let s: $Struct = v.into(); }
IntoBack ==
    /\ pc = "ready"
    /\ ret # <<>>
    /\ ret[1].tag = "Ok"
    /\ back = <<>>
    /\ back' = <<into_struct(gen[1], ret[1].variant)>>
    /\ UNCHANGED <<inv, pc, gen, c, src, ret, consulted>>

\* the container and the values derived from it go out of scope
Drop ==
    /\ pc = "ready"
    /\ c # <<>>
    /\ c' = <<>>
    /\ src' = [kind |-> "none", v |-> "-"]
    /\ ret' = <<>>
    /\ back' = <<>>
    /\ consulted' = 0
    /\ UNCHANGED <<inv, pc, gen>>

Next == Expand \/ FromRaw \/ Into \/ Const \/ AsEnum \/ IntoBack \/ Drop

Spec == Init /\ [][Next]_vars

\* ------------------------------------------- the interval-gated variant
\* the matcher of the variant of the macro that takes a validation interval
MatchesInterval(i) ==
    /\ Len(i.variants) >= 1
    /\ \A k \in 1 .. Len(i.variants) : ~i.variants[k].ranged

Outside(iv, x) == iv # <<>> /\ (x < iv[1] \/ x > iv[2])

\* every declared value lies inside the declared interval
IntervalWellFormed(g) ==
    \A k \in 1 .. Len(g.enum) : ~Outside(g.interval, g.enum[k].discr)

\* classification gated by the interval: the result and the number of
\* arms compared
classify_ungated(g, self) ==
    [result |-> as_enum(g, self), consulted |-> ArmsConsulted(g.arms, self.data)]
classify(g, self) ==
    IF Outside(g.interval, self.data)
    THEN [result |-> Err(self.data), consulted |-> 0]
    ELSE [result |-> as_enum(g, self), consulted |-> ArmsConsulted(g.arms, self.data)]

ExpandInterval ==
    /\ pc = "invoked"
    /\ IF /\ MatchesInterval(inv)
          /\ Compiles(const_enum(inv))
          /\ IntervalWellFormed(const_enum(inv))
       THEN pc' = "ready" /\ gen' = <<const_enum(inv)>>
       ELSE pc' = "rejected" /\ gen' = <<>>
    /\ UNCHANGED <<inv, c, src, ret, back, consulted>>

Classify ==
    /\ pc = "ready"
    /\ c # <<>>
    /\ ret = <<>>
    /\ ret' = <<classify(gen[1], c[1]).result>>
    /\ consulted' = classify(gen[1], c[1]).consulted
    /\ UNCHANGED <<inv, pc, gen, c, src, back>>

NextInterval ==
    ExpandInterval \/ FromRaw \/ Into \/ Const \/ Classify \/ IntoBack \/ Drop

SpecInterval == Init /\ [][NextInterval]_vars

\* ------------------------------------------------------------ properties
\* what the invocation declares, read off the invocation itself
Declared(i) == 1 .. Len(i.variants)
DeclaredValues(i) == {i.variants[k].value : k \in Declared(i)}
Classified == pc = "ready" /\ c # <<>> /\ ret # <<>>

\* C1: round trip. A container made from a declared variant v by into()
\* classifies as Ok(v), for every declared variant.
C1_RoundTrip ==
    pc = "ready" =>
        /\ \A k \in Declared(inv) :
            as_enum(gen[1], into_struct(gen[1], inv.variants[k].name))
                = Ok(inv.variants[k].name)
        /\ (src.kind = "into" /\ ret # <<>>) => ret[1] = Ok(src.v)

C1_Witness == Classified /\ src.kind = "into" /\ Len(inv.variants) >= 2

\* C2: unknown preserves the value. When the field holds a raw value that
\* no declared variant is bound to, as_enum returns Err of exactly that value.
C2_UnknownPreservesValue ==
    (Classified /\ c[1].data \notin DeclaredValues(inv)) => ret[1] = Err(c[1].data)

C2_Witness ==
    Classified /\ src.kind = "raw" /\ c[1].data = 5 /\ ret[1].tag = "Err"

\* C3: known-match correctness. as_enum returns Ok exactly when the raw value
\* is some declared variant's value, and the variant returned is the one
\* declared with that value.
C3_KnownMatch ==
    Classified =>
        /\ ret[1].tag = "Ok" <=> c[1].data \in DeclaredValues(inv)
        /\ ret[1].tag = "Ok" =>
            /\ \E k \in Declared(inv) : inv.variants[k].name = ret[1].variant
            /\ \A k \in Declared(inv) :
                inv.variants[k].name = ret[1].variant
                    <=> inv.variants[k].value = c[1].data

C3_Witness ==
    /\ Classified
    /\ src.kind = "raw"
    /\ c[1].data = 13
    /\ ret[1] = Ok("V3")
    /\ Len(inv.variants) >= 2
    /\ inv.variants[1].name # "V3"

\* C4: totality. For every value of the field type as_enum yields one of
\* Ok and Err, and nothing else; every classification made is one of the two.
C4_Totality ==
    pc = "ready" =>
        /\ \A x \in FieldType : as_enum(gen[1], [data |-> x]).tag \in {"Ok", "Err"}
        /\ ret # <<>> => ret[1].tag \in {"Ok", "Err"}

C4_Witness ==
    Classified /\ src.kind = "raw" /\ c[1].data = 2^FieldBits - 1 /\ ret[1].tag = "Err"

\* C5: interval short-circuit. With a declared interval and a raw value
\* outside it, classification returns Err of that value and has compared
\* no declared variant value.
C5_IntervalShortCircuit ==
    (Classified /\ Outside(gen[1].interval, c[1].data)) =>
        ret[1] = Err(c[1].data) /\ consulted = 0

C5_Witness ==
    Classified /\ inv.interval = <<0, 22>> /\ c[1].data = 33 /\ ret[1] = Err(33)

\* C6: named constants. There is one associated constant per declared
\* variant, named after it, equal to the container into() makes from that
\* variant, its field holding the variant's declared value.
C6_NamedConstants ==
    pc = "ready" =>
        /\ Len(gen[1].consts) = Len(inv.variants)
        /\ \A k \in Declared(inv) :
            /\ gen[1].consts[k].name = inv.variants[k].name
            /\ ConstNamed(gen[1], inv.variants[k].name)
                = into_struct(gen[1], inv.variants[k].name)
            /\ ConstNamed(gen[1], inv.variants[k].name).data = inv.variants[k].value
        /\ src.kind = "const" => c[1] = into_struct(gen[1], src.v)

C6_Witness ==
    /\ pc = "ready"
    /\ src.kind = "const"
    /\ c[1].data = 13
    /\ Len(inv.variants) >= 2

\* C7: specification rejection. An invocation in which two variants share a
\* name or a value, or a value lies outside the field type or outside a
\* declared interval, is rejected when it is expanded: nothing is generated
\* and nothing is ever classified.
SharesName(i) ==
    \E j, k \in Declared(i) : j # k /\ i.variants[j].name = i.variants[k].name
SharesValue(i) ==
    \E j, k \in Declared(i) : j # k /\ i.variants[j].value = i.variants[k].value
OutOfDomain(i) == \E k \in Declared(i) : i.variants[k].value \notin FieldType
OutOfInterval(i) == \E k \in Declared(i) : Outside(i.interval, i.variants[k].value)
IllFormed(i) == SharesName(i) \/ SharesValue(i) \/ OutOfDomain(i) \/ OutOfInterval(i)

C7_SpecificationRejection ==
    (IllFormed(inv) /\ pc # "invoked") =>
        pc = "rejected" /\ gen = <<>> /\ c = <<>> /\ ret = <<>>

C7_Witness ==
    /\ pc = "rejected"
    /\ SharesValue(inv)
    /\ ~SharesName(inv)
    /\ ~OutOfDomain(inv)
    /\ inv.interval = <<>>
    /\ \A k \in Declared(inv) : ~inv.variants[k].ranged

\* C8: ranged variants are disallowed. An invocation with an entry written
\* as a range is rejected when it is expanded, and in every accepted
\* invocation each variant is bound to exactly one raw value.
HasRange(i) == \E k \in Declared(i) : i.variants[k].ranged

C8_NoRangedVariants ==
    /\ (HasRange(inv) /\ pc # "invoked") => pc = "rejected" /\ gen = <<>>
    /\ pc = "ready" =>
        \A v \in Variants(gen[1]) :
            Cardinality({gen[1].enum[k].discr :
                k \in {j \in 1 .. Len(gen[1].enum) : gen[1].enum[j].variant = v}}) = 1

C8_Witness ==
    /\ pc = "rejected"
    /\ HasRange(inv)
    /\ ~IllFormed(inv)
    /\ inv.interval = <<>>
    /\ Len(inv.variants) >= 2

\* C9: variant-to-primitive conversion. The expansion provides an
\* Into<FieldType> impl for the enum, which yields each variant's declared
\* value, distinct variants giving distinct values.
C9_IntoFieldType ==
    pc = "ready" =>
        /\ "into_field_type" \in gen[1].items
        /\ \A k \in Declared(inv) :
            as_cast(gen[1], inv.variants[k].name) = inv.variants[k].value
        /\ \A j, k \in Declared(inv) :
            j # k => as_cast(gen[1], inv.variants[j].name)
                        # as_cast(gen[1], inv.variants[k].name)

\* C10: reverse round trip. When as_enum returns Ok(v), the container made
\* from v by into() holds the raw value that was classified.
C10_ReverseRoundTrip ==
    (Classified /\ back # <<>>) => back[1].data = c[1].data

C10_Witness ==
    /\ Classified
    /\ back # <<>>
    /\ src.kind = "raw"
    /\ c[1].data = 13
    /\ Len(inv.variants) >= 2

====
